---- MODULE Spec2Model ----
(***************************************************************************)
(* Model of the thread store of the document chat application              *)
(* (src/app/chat_memory.py, class ChatMemoryManager).                      *)
(*                                                                         *)
(* Persisted state: the thread index file (threads_index.json, a list of   *)
(* thread metadata records) and one message-log file per thread            *)
(* (<thread_id>.json).  Strings whose characters matter (questions,        *)
(* titles) are sequences of one-character strings.  Timestamps are the     *)
(* readings of datetime.now(): naturals, each reading later than the one   *)
(* before it; isoformat()/fromisoformat() are order preserving on them, so *)
(* a stored timestamp is compared as the natural itself.                   *)
(***************************************************************************)
EXTENDS Naturals, Sequences, FiniteSets, TLC

\* Bounds of the model.
MaxThreads == 3
MaxClock == 7
MaxSearchThreads == 2
MaxPageLen == 5
MaxChunks == 6
MaxChatClock == 10
MaxFiles == 3

\* first_question[:50]                                  chat_memory.py:52
TitleLimit == 50

\* chunk_size: int = 1000                                 pdf_processor.py:40
DefaultChunkSize == 1000

\* relevant_chunks[:5]                                    ui_chat.py:328
TopChunks == 5

\* The thread store: the persisted files, the clock, and the record of the calls.
VARIABLES index, logs, clock, nextId, appended, lastOp

\* search_threads: the query and the list returned.
VARIABLES query, matching

\* create_pdf_chunks: its arguments, whether it was called, and the list returned.
VARIABLES pages_content, chunk_size, chunked, chunks

\* find_relevant_content: the question, st.session_state.selected_pdf_content,
\* the two lists returned, whether the call raised, and whether it was made.
VARIABLES question, selected_pdf_content, content_texts, sources, raised, ranked

\* st.session_state of the chat page and the sidebar; generation: what the last
\* event saw of the answer generator ("none" when it was not called).
VARIABLES current_thread_id, new_chat_clicked, selected_pdf_id, chat_history,
          generation

\* The file store: uploads/file_data.json, the files of the uploads directory
\* (file name -> id of the document whose bytes it holds), the ids handed out,
\* and the last call with what it returned.
VARIABLES metadata, uploads, nextFileId, fileOp

storeVars == <<index, logs, clock, nextId, appended, lastOp>>

searchVars == <<query, matching>>

chunkVars == <<pages_content, chunk_size, chunked, chunks>>

rankVars == <<question, selected_pdf_content, content_texts, sources, raised, ranked>>

chatVars ==
    <<current_thread_id, new_chat_clicked, selected_pdf_id, chat_history, generation>>

fileVars == <<metadata, uploads, nextFileId, fileOp>>

\* Two sessions appending to one thread, step by step: the text of
\* threads_index.json and of the thread's log file, each session's position in
\* add_message_to_thread and its local variables, and the wall clock.
VARIABLES index_file, log_file, pc, session, append_clock

appendVars == <<index_file, log_file, pc, session, append_clock>>

\* What a call on the store leaves alone.
nonStoreVars == <<searchVars, chunkVars, rankVars, chatVars, fileVars, appendVars>>

\* What a call on the file store leaves alone.
nonFileVars == <<storeVars, searchVars, chunkVars, rankVars, chatVars, appendVars>>

\* What a step of a concurrent append leaves alone.
nonAppendVars == <<storeVars, searchVars, chunkVars, rankVars, chatVars, fileVars>>

\* What an event of the chat page or the sidebar leaves alone.
nonChatVars ==
    <<appended, searchVars, chunkVars, question, content_texts, sources, raised, ranked,
      fileVars, appendVars>>

vars == <<storeVars, searchVars, chunkVars, rankVars, chatVars, fileVars, appendVars>>

----------------------------------------------------------------------------
\* Inputs.

Rep(c, n) == [i \in 1..n |-> c]

\* The id 0 is never generated by create_new_thread: an id unknown to the store.
ThreadIds == 0..MaxThreads

Pdfs == { [pdf_file_id |-> "p1", pdf_filename |-> "report.pdf"],
          [pdf_file_id |-> "p2", pdf_filename |-> "notes.pdf"] }

PdfIds == { p.pdf_file_id : p \in Pdfs }

Questions == { <<"h", "i">>, Rep("x", TitleLimit), Rep("y", TitleLimit + 1) }

NewTitles == { <<" ", "n", "e", "w", " ">>, <<"t">> }

\* sources=None is stored as [] (sources or []): both are the empty sequence here.
MessageInputs ==
    { [question |-> "q1", answer |-> "a1", sources |-> <<>>],
      [question |-> "q2", answer |-> "a2",
       sources |-> <<[filename |-> "report.pdf", page_number |-> 1, content |-> "c"]>>] }

Whitespace == {" ", "\t", "\n"}

Ellipsis == <<".", ".", ".">>

\* lastOp: the last call and what it returned.  id: the thread id passed (returned,
\* for create_new_thread); text: first_question or new_title; valid: valid_pdf_ids;
\* ok: the boolean returned; count: the count returned; again: the call before it
\* was cleanup_orphaned_threads with the same valid_pdf_ids, which returned prev.
NoOp == [op |-> "init", id |-> 0, text |-> <<>>, valid |-> {}, ok |-> TRUE,
         count |-> 0, again |-> FALSE, prev |-> 0]

----------------------------------------------------------------------------
\* Helpers of the store.

\* str.strip()
RECURSIVE lstrip(_)
lstrip(s) == IF s # <<>> /\ Head(s) \in Whitespace THEN lstrip(Tail(s)) ELSE s

RECURSIVE rstrip(_)
rstrip(s) ==
    IF s # <<>> /\ s[Len(s)] \in Whitespace THEN rstrip(SubSeq(s, 1, Len(s) - 1)) ELSE s

\* Faulty variant: trims the left end only.
strip_left_only(s) == lstrip(s)

strip(s) == rstrip(lstrip(s))

\* dict.update(updates)
dict_update(d, updates) ==
    [k \in DOMAIN d |-> IF k \in DOMAIN updates THEN updates[k] ELSE d[k]]

parse_datetime(dt) == dt

\* threads.sort(key=parse_datetime(updated_at), reverse=True): a stable sort,
\* threads with equal keys keep their order.
RECURSIVE sort_updated_desc(_)
sort_updated_desc(threads) ==
    IF threads = <<>> THEN <<>>
    ELSE LET init == sort_updated_desc(SubSeq(threads, 1, Len(threads) - 1))
             t == threads[Len(threads)]
             k == Cardinality({ i \in 1..Len(init) :
                     parse_datetime(init[i].updated_at) >= parse_datetime(t.updated_at) })
         IN  SubSeq(init, 1, k) \o <<t>> \o SubSeq(init, k + 1, Len(init))

\* Faulty variant: writes the list without sorting it.
save_threads_index_unsorted(threads) == threads

\* save_threads_index: the content of the index file after the call.
save_threads_index(threads) == sort_updated_desc(threads)

IndexIds(threads) == { threads[i].thread_id : i \in 1..Len(threads) }

\* next((t for t in threads if t['thread_id'] == thread_id), None), for an id of the index
get_thread_by_id(threads, thread_id) ==
    threads[CHOOSE i \in 1..Len(threads) :
              /\ threads[i].thread_id = thread_id
              /\ \A j \in 1..(i - 1) : threads[j].thread_id # thread_id]

\* load_thread_messages: the log file's content, [] when there is no file.
load_thread_messages(lg, thread_id) ==
    IF thread_id \in DOMAIN lg THEN lg[thread_id] ELSE <<>>

\* thread_file.unlink() when the file exists
unlink(lg, thread_id) == [id \in DOMAIN lg \ {thread_id} |-> lg[id]]

\* update_thread_metadata: [found, index]; the index is saved only when found.
update_thread_metadata(threads, thread_id, updates) ==
    IF thread_id \in IndexIds(threads)
    THEN LET i == CHOOSE i \in 1..Len(threads) :
                    /\ threads[i].thread_id = thread_id
                    /\ \A j \in 1..(i - 1) : threads[j].thread_id # thread_id
         IN  [found |-> TRUE,
              index |-> save_threads_index(
                           [threads EXCEPT ![i] = dict_update(threads[i], updates)])]
    ELSE [found |-> FALSE, index |-> threads]

\* Faulty variant: counts the messages of the log as it was before the write.
save_thread_messages_stale_count(threads, lg, thread_id, messages, t) ==
    [logs  |-> (thread_id :> messages) @@ lg,
     index |-> update_thread_metadata(threads, thread_id,
                   [message_count |-> Len(load_thread_messages(lg, thread_id)),
                    updated_at |-> t]).index]

\* save_thread_messages: writes the log file, then updates the index entry;
\* t is the reading of datetime.now() at line 80.
save_thread_messages(threads, lg, thread_id, messages, t) ==
    [logs  |-> (thread_id :> messages) @@ lg,
     index |-> update_thread_metadata(threads, thread_id,
                   [message_count |-> Len(messages), updated_at |-> t]).index]

\* Faulty variant: appends the ellipsis from 50 characters on (>= for >).
thread_title_ge(first_question) ==
    SubSeq(first_question, 1,
           IF Len(first_question) < TitleLimit THEN Len(first_question) ELSE TitleLimit)
    \o (IF Len(first_question) >= TitleLimit THEN Ellipsis ELSE <<>>)

\* first_question[:50] + ('...' if len(first_question) > 50 else '')
thread_title(first_question) ==
    SubSeq(first_question, 1,
           IF Len(first_question) < TitleLimit THEN Len(first_question) ELSE TitleLimit)
    \o (IF Len(first_question) > TitleLimit THEN Ellipsis ELSE <<>>)

----------------------------------------------------------------------------
\* The operations, as functions of the persisted state.

\* create_new_thread; t1, t2 are the readings of datetime.now() (lines 47, 80).
create_thread_result(threads, lg, thread_id, pdf, first_question, t1, t2) ==
    LET thread_data == [thread_id     |-> thread_id,
                        title         |-> thread_title(first_question),
                        pdf_file_id   |-> pdf.pdf_file_id,
                        pdf_filename  |-> pdf.pdf_filename,
                        created_at    |-> t1,
                        updated_at    |-> t1,
                        message_count |-> 0]
        inserted == save_threads_index(<<thread_data>> \o threads)
    IN  save_thread_messages(inserted, lg, thread_id, <<>>, t2)

\* Faulty variant: does not load the stored messages before appending.
add_message_result_overwrite(threads, lg, thread_id, m, t1, t2) ==
    save_thread_messages(threads, lg, thread_id,
        <<[question |-> m.question, answer |-> m.answer, sources |-> m.sources,
           timestamp |-> t1]>>, t2)

\* Faulty variant: inserts the new message at the head of the log.
add_message_result_prepend(threads, lg, thread_id, m, t1, t2) ==
    save_thread_messages(threads, lg, thread_id,
        <<[question |-> m.question, answer |-> m.answer, sources |-> m.sources,
           timestamp |-> t1]>> \o load_thread_messages(lg, thread_id), t2)

\* add_message_to_thread; t1, t2 are the readings of datetime.now() (lines 174, 80).
add_message_result(threads, lg, thread_id, m, t1, t2) ==
    LET messages == load_thread_messages(lg, thread_id)
        message_pair == [question  |-> m.question,
                         answer    |-> m.answer,
                         sources   |-> m.sources,
                         timestamp |-> t1]
    IN  save_thread_messages(threads, lg, thread_id, Append(messages, message_pair), t2)

\* update_thread_title; t is the reading of datetime.now() (line 122).
update_title_result(threads, thread_id, new_title, t) ==
    update_thread_metadata(threads, thread_id,
                           [title |-> strip(new_title), updated_at |-> t])

\* Faulty variant: removes the index entry and leaves the log file.
delete_thread_result_keep_log(threads, lg, thread_id) ==
    LET kept == SelectSeq(threads, LAMBDA t : t.thread_id # thread_id)
    IN  IF Len(kept) = Len(threads)
        THEN [ok |-> FALSE, index |-> threads, logs |-> lg]
        ELSE [ok |-> TRUE, index |-> save_threads_index(kept), logs |-> lg]

\* delete_thread
delete_thread_result(threads, lg, thread_id) ==
    LET kept == SelectSeq(threads, LAMBDA t : t.thread_id # thread_id)
    IN  IF Len(kept) = Len(threads)
        THEN [ok |-> FALSE, index |-> threads, logs |-> lg]
        ELSE [ok |-> TRUE, index |-> save_threads_index(kept),
              logs |-> unlink(lg, thread_id)]

\* Faulty variant: removes the index entries and leaves the log files.
cleanup_result_keep_logs(threads, lg, valid_pdf_ids) ==
    LET valid_threads == SelectSeq(threads, LAMBDA t : t.pdf_file_id \in valid_pdf_ids)
        deleted_count == Len(threads) - Len(valid_threads)
    IN  [count |-> deleted_count,
         index |-> IF deleted_count > 0 THEN save_threads_index(valid_threads)
                   ELSE threads,
         logs  |-> lg]

\* Faulty variant: saves the index only when more than one thread was removed.
cleanup_result_save_gt_one(threads, lg, valid_pdf_ids) ==
    LET valid_threads == SelectSeq(threads, LAMBDA t : t.pdf_file_id \in valid_pdf_ids)
        orphans == { threads[i].thread_id :
                       i \in { j \in 1..Len(threads) :
                                 threads[j].pdf_file_id \notin valid_pdf_ids } }
        deleted_count == Len(threads) - Len(valid_threads)
    IN  [count |-> deleted_count,
         index |-> IF deleted_count > 1 THEN save_threads_index(valid_threads)
                   ELSE threads,
         logs  |-> [id \in DOMAIN lg \ orphans |-> lg[id]]]

\* cleanup_orphaned_threads
cleanup_result(threads, lg, valid_pdf_ids) ==
    LET valid_threads == SelectSeq(threads, LAMBDA t : t.pdf_file_id \in valid_pdf_ids)
        orphans == { threads[i].thread_id :
                       i \in { j \in 1..Len(threads) :
                                 threads[j].pdf_file_id \notin valid_pdf_ids } }
        deleted_count == Len(threads) - Len(valid_threads)
    IN  [count |-> deleted_count,
         index |-> IF deleted_count > 0 THEN save_threads_index(valid_threads)
                   ELSE threads,
         logs  |-> [id \in DOMAIN lg \ orphans |-> lg[id]]]

----------------------------------------------------------------------------
\* search_threads.

\* str.lower() on the letters used here.
LowerChar(c) ==
    CASE c = "A" -> "a"
      [] c = "B" -> "b"
      [] c = "C" -> "c"
      [] c = "D" -> "d"
      [] OTHER -> c

lower(s) == [i \in 1..Len(s) |-> LowerChar(s[i])]

\* sub in s
Contains(sub, s) ==
    \E i \in 0..(Len(s) - Len(sub)) : SubSeq(s, i + 1, i + Len(sub)) = sub

\* The inner loop over the messages (lines 194-198): whether one matches.
RECURSIVE message_matches(_, _)
message_matches(q, messages) ==
    IF messages = <<>> THEN FALSE
    ELSE IF Contains(q, lower(Head(messages).question))
            \/ Contains(q, lower(Head(messages).answer))
         THEN TRUE
         ELSE message_matches(q, Tail(messages))

\* The loop over the threads (lines 186-198), q the lower-cased query.
RECURSIVE search_loop(_, _, _)
search_loop(q, threads, lg) ==
    IF threads = <<>> THEN <<>>
    ELSE LET thread == Head(threads)
             rest == search_loop(q, Tail(threads), lg)
         IN  IF Contains(q, lower(thread.title))
             THEN <<thread>> \o rest
             ELSE IF message_matches(q, load_thread_messages(lg, thread.thread_id))
                  THEN <<thread>> \o rest
                  ELSE rest

\* Faulty variant: compares the query as typed, without lower-casing it.
search_threads_result_query_as_typed(threads, lg, q) == search_loop(q, threads, lg)

\* search_threads: the list returned.
search_threads_result(threads, lg, q) == search_loop(lower(q), threads, lg)

\* Stores to search in: n threads created one after the other, each given its
\* messages right after its creation; the index lists the latest first.
SearchTitles == { <<"A", "b">>, <<"b", "a">>, <<"c">> }

SearchMessages ==
    { <<>>,
      <<[question |-> <<"a", "B">>, answer |-> <<"d">>]>>,
      <<[question |-> <<"d">>, answer |-> <<"c", "d">>],
        [question |-> <<"d", "d">>, answer |-> <<"B", "A">>]>> }

SearchQueries == { <<>>, <<"a", "b">>, <<"B">>, <<"C">>, <<"D">>, <<"a", "a">> }

Stride == 2 + 2 * 2

SearchThread(n, i, title, msgs) ==
    [thread_id     |-> n - i + 1,
     title         |-> title,
     pdf_file_id   |-> "p1",
     pdf_filename  |-> "report.pdf",
     created_at    |-> (n - i) * Stride + 1,
     updated_at    |-> (n - i) * Stride + 2 + 2 * Len(msgs),
     message_count |-> Len(msgs)]

SearchLog(n, i, msgs) ==
    [k \in 1..Len(msgs) |->
        [question  |-> msgs[k].question,
         answer    |-> msgs[k].answer,
         sources   |-> <<>>,
         timestamp |-> (n - i) * Stride + 1 + 2 * k]]

----------------------------------------------------------------------------
\* create_pdf_chunks (src/app/pdf_processor.py).

\* str.split(): the maximal runs of non-whitespace characters, in order.
RECURSIVE split_scan(_, _, _)
split_scan(s, word, words) ==
    IF s = <<>>
    THEN IF word = <<>> THEN words ELSE Append(words, word)
    ELSE IF Head(s) \in Whitespace
         THEN split_scan(Tail(s), <<>>, IF word = <<>> THEN words ELSE Append(words, word))
         ELSE split_scan(Tail(s), Append(word, Head(s)), words)

split(s) == split_scan(s, <<>>, <<>>)

\* ' '.join(words)
RECURSIVE join(_)
join(words) ==
    IF words = <<>> THEN <<>>
    ELSE IF Len(words) = 1 THEN words[1]
         ELSE words[1] \o <<" ">> \o join(Tail(words))

\* Faulty variant: the word that closes a chunk is not carried into the next one.
RECURSIVE split_words_drop(_, _, _, _)
split_words_drop(words, current_chunk, current_length, size) ==
    IF words = <<>>
    THEN IF current_chunk # <<>> THEN <<join(current_chunk)>> ELSE <<>>
    ELSE LET word == Head(words)
         IN  IF current_length + Len(word) > size /\ current_chunk # <<>>
             THEN <<join(current_chunk)>>
                  \o split_words_drop(Tail(words), <<>>, 0, size)
             ELSE split_words_drop(Tail(words), Append(current_chunk, word),
                                   current_length + Len(word) + 1, size)

\* The loop over the words of a large page (lines 62-82): the contents emitted.
RECURSIVE split_words(_, _, _, _)
split_words(words, current_chunk, current_length, size) ==
    IF words = <<>>
    THEN IF current_chunk # <<>> THEN <<join(current_chunk)>> ELSE <<>>
    ELSE LET word == Head(words)
         IN  IF current_length + Len(word) > size /\ current_chunk # <<>>
             THEN <<join(current_chunk)>>
                  \o split_words(Tail(words), <<word>>, Len(word), size)
             ELSE split_words(Tail(words), Append(current_chunk, word),
                              current_length + Len(word) + 1, size)

\* The contents emitted for one page (lines 49-82).
page_chunk_contents(content, size) ==
    IF Len(content) <= size THEN <<content>>
    ELSE split_words(split(content), <<>>, 0, size)

\* The loop over the pages (lines 45-82), chunk_id the counter on entry.
RECURSIVE chunk_pages(_, _, _)
chunk_pages(pages, chunk_id, size) ==
    IF pages = <<>> THEN <<>>
    ELSE LET contents == page_chunk_contents(Head(pages).content, size)
             emitted == [k \in 1..Len(contents) |->
                            [chunk_id    |-> chunk_id + k - 1,
                             page_number |-> Head(pages).page_number,
                             content     |-> contents[k]]]
         IN  emitted \o chunk_pages(Tail(pages), chunk_id + Len(contents), size)

\* Faulty variant: the counter starts again at 0 on every page.
RECURSIVE create_pdf_chunks_result_reset(_, _)
create_pdf_chunks_result_reset(pages, size) ==
    IF pages = <<>> THEN <<>>
    ELSE chunk_pages(<<Head(pages)>>, 0, size)
         \o create_pdf_chunks_result_reset(Tail(pages), size)

\* create_pdf_chunks: the list returned.
create_pdf_chunks_result(pages, size) == chunk_pages(pages, 0, size)

\* Page texts: extract_text_with_pages stores text.strip(), so a page's content
\* neither starts nor ends with whitespace; it may be empty.
PageAlphabet == {"a", "b", " "}

PageContents ==
    { c \in UNION { [1..n -> PageAlphabet] : n \in 0..MaxPageLen } : strip(c) = c }

SecondPages == { <<>>, <<"b">>, <<"b", " ", "a", " ", "b">> }

ChunkSizes == {2, 3, 4}

\* pages_content as extract_text_with_pages builds it: page_number is 1, 2, ...
PagesOf(contents) ==
    [i \in 1..Len(contents) |-> [page_number |-> i, content |-> contents[i]]]

----------------------------------------------------------------------------
\* find_relevant_content (src/app/ui_chat.py).

\* set(s.lower().split())
Tokens(s) == { split(lower(s))[i] : i \in 1..Len(split(lower(s))) }

\* Faulty variant: a chunk sharing no word with the question passes.
is_relevant_ge(overlap) == overlap >= 0

\* if overlap > 0
is_relevant(overlap) == overlap > 0

\* A score overlap / len(question_words) is kept as the pair <<overlap, len>>;
\* two scores compare as the quotients do.
ScoreGe(a, b) == a[1] * b[2] >= b[1] * a[2]

ScoreGt(a, b) == a[1] * b[2] > b[1] * a[2]

\* Faulty variant: of two chunks with the same score the later one comes first.
RECURSIVE sort_score_desc_ties_swapped(_)
sort_score_desc_ties_swapped(cs) ==
    IF cs = <<>> THEN <<>>
    ELSE LET init == sort_score_desc_ties_swapped(SubSeq(cs, 1, Len(cs) - 1))
             c == cs[Len(cs)]
             k == Cardinality({ i \in 1..Len(init) : ScoreGt(init[i].score, c.score) })
         IN  SubSeq(init, 1, k) \o <<c>> \o SubSeq(init, k + 1, Len(init))

\* relevant_chunks.sort(key=score, reverse=True): a stable sort.
RECURSIVE sort_score_desc(_)
sort_score_desc(cs) ==
    IF cs = <<>> THEN <<>>
    ELSE LET init == sort_score_desc(SubSeq(cs, 1, Len(cs) - 1))
             c == cs[Len(cs)]
             k == Cardinality({ i \in 1..Len(init) : ScoreGe(init[i].score, c.score) })
         IN  SubSeq(init, 1, k) \o <<c>> \o SubSeq(init, k + 1, Len(init))

\* selected_pdf_content when no document is loaded (None).
NoContent == [loaded |-> FALSE, chunks |-> <<>>]

\* find_relevant_content: the two lists returned, and whether the division of
\* line 319 was reached with an empty question_words.
find_relevant_content_result(content, q) ==
    IF ~content.loaded
    THEN [content_texts |-> <<>>, sources |-> <<>>, raised |-> FALSE]
    ELSE LET question_words == Tokens(q)
             overlap(c) == Cardinality(question_words \cap Tokens(c.content))
             passing == SelectSeq(content.chunks, LAMBDA c : is_relevant(overlap(c)))
             relevant_chunks ==
                 [k \in 1..Len(passing) |->
                     [content     |-> passing[k].content,
                      page_number |-> passing[k].page_number,
                      score       |-> <<overlap(passing[k]), Cardinality(question_words)>>]]
             sorted == sort_score_desc(relevant_chunks)
             top_chunks ==
                 SubSeq(sorted, 1, IF Len(sorted) < TopChunks THEN Len(sorted) ELSE TopChunks)
         IN  [content_texts |-> [k \in 1..Len(top_chunks) |-> top_chunks[k].content],
              sources |-> [k \in 1..Len(top_chunks) |->
                              [page_number |-> top_chunks[k].page_number,
                               content     |-> top_chunks[k].content]],
              raised |-> Len(passing) > 0 /\ Cardinality(question_words) = 0]

\* Chunk texts and questions: mixed case, shared and unshared words.
RankContents == { <<"A", " ", "b">>, <<"b">>, <<"c">> }

RankQuestions ==
    { <<>>, <<" ">>, <<"d">>, <<"a", " ", "B">>, <<"c">>,
      <<"a", " ", "b", " ", "c">> }

\* A loaded document whose chunks hold the given texts, one chunk per page.
LoadedContent(contents) ==
    [loaded |-> TRUE,
     chunks |-> [i \in 1..Len(contents) |->
                    [chunk_id |-> i - 1, page_number |-> i, content |-> contents[i]]]]

----------------------------------------------------------------------------
\* The chat page and the sidebar (src/app/ui_chat.py, src/app/chat_sidebar.py).

\* current_thread_id = None; the id 0 is never generated.
NoThread == 0

\* selected_pdf_id = None
NoPdf == "none"

\* file_manager.load_metadata()[file_id]['filename']; the documents of Pdfs are
\* registered with status 'success' and their files exist.
filename_of(file_id) == (CHOOSE p \in Pdfs : p.pdf_file_id = file_id).pdf_filename

\* The text of the pages of each document.
extract_text_with_pages(file_id) ==
    IF file_id = "p1" THEN PagesOf(<< <<"A", " ", "b">> >>)
    ELSE PagesOf(<< <<"c">> >>)

\* load_pdf_content: the value stored in selected_pdf_content.
load_pdf_content(file_id) ==
    [loaded    |-> TRUE,
     chunks    |-> create_pdf_chunks_result(extract_text_with_pages(file_id),
                                            DefaultChunkSize),
     file_path |-> file_id]

\* What the user types; the Send button ignores a blank question.
ChatQuestions == { <<"b">>, <<"c">>, <<" ">> }

\* model.generate_content returns a response, or raises.
GeminiOutcomes == { "ok", "fails" }

GeneratedText == "generated"

ErrorText == "Error generating answer"

\* Faulty variant: a failure of the generator is raised to the caller.
generate_answer_with_gemini_raises(outcome) ==
    [raised |-> outcome # "ok", text |-> GeneratedText]

\* generate_answer_with_gemini: the text returned; the except clause of line 364
\* turns a failure into the error text, nothing is raised.
generate_answer_with_gemini(outcome) ==
    [raised |-> FALSE, text |-> IF outcome = "ok" THEN GeneratedText ELSE ErrorText]

\* Faulty variant: the generator is called whatever the ranker returned.
calls_generator_always(r) == TRUE

\* if not relevant_chunks ... else (lines 246-251)
calls_generator(r) == r.content_texts # <<>>

NoRelevantAnswer ==
    "I couldn't find relevant information in the PDF to answer your question."

\* Faulty variant: a current thread is kept whatever document it belongs to.
is_new_conversation_no_thread_only(threads, current, pdf_file_id) == current = NoThread

\* is_new_conversation
is_new_conversation(threads, current, pdf_file_id) ==
    IF current = NoThread THEN TRUE
    ELSE IF current \notin IndexIds(threads) THEN TRUE
         ELSE get_thread_by_id(threads, current).pdf_file_id # pdf_file_id

\* Faulty variant: every question starts a thread.
needs_new_thread_always(current, clicked) == TRUE

\* if not current_thread_id or st.session_state.new_chat_clicked
needs_new_thread(current, clicked) == current = NoThread \/ clicked

\* Faulty variant: the new thread does not become the current one.
create_thread_for_first_question_unset(current, thread_id) == current

\* create_thread_for_first_question: the value of current_thread_id after it.
create_thread_for_first_question(current, thread_id) == thread_id

\* A chat entry or stored message as display_chat_history uses it.
Shown(m) == [question |-> m.question, answer |-> m.answer, sources |-> m.sources]

\* process_question, lines 244-272: the chat entry built from what
\* find_relevant_content returned (r); generated is what the answer generator
\* returns if it is called.
chat_entry_of(r, file_id, q, generated) ==
    LET found == calls_generator(r)
        srcs == IF found THEN r.sources ELSE <<>>
    IN  [question |-> q,
         answer   |-> IF found THEN generated ELSE NoRelevantAnswer,
         sources  |-> [k \in 1..Len(srcs) |->
                          [filename    |-> filename_of(file_id),
                           page_number |-> srcs[k].page_number,
                           content     |-> srcs[k].content]]]

----------------------------------------------------------------------------
\* The file store (src/app/file_manager.py).  An entry keeps filename, status
\* and file_id; filesize and created_at are written once and never read by the
\* operations below.

\* The id 0 is never generated (uuid4): an id unknown to the file store.
FileIds == 0..MaxFiles

FileNames == { "report.pdf", "notes.pdf" }

Statuses == { "uploading", "processing", "success", "error" }

\* get_file_path returns None
NoPath == "none"

NoFileOp == [op |-> "init", id |-> 0, ok |-> TRUE, unlinked |-> FALSE]

\* add_file_metadata: the metadata after the call.
add_file_metadata_result(md, filename, file_id) ==
    (file_id :> [filename |-> filename, status |-> "uploading", file_id |-> file_id])
    @@ md

\* update_file_status: the metadata after the call.
update_file_status_result(md, file_id, status) ==
    IF file_id \in DOMAIN md
    THEN [md EXCEPT ![file_id] = [@ EXCEPT !.status = status]]
    ELSE md

\* Faulty variant: removes the metadata entry and leaves the file.
delete_file_result_keep_file(md, files, file_id) ==
    IF file_id \in DOMAIN md
    THEN [ok |-> TRUE, unlinked |-> FALSE,
          metadata |-> [f \in DOMAIN md \ {file_id} |-> md[f]],
          uploads  |-> files]
    ELSE [ok |-> FALSE, unlinked |-> FALSE, metadata |-> md, uploads |-> files]

\* delete_file: what it returns, whether it unlinked a file, and the metadata and
\* the uploads directory after the call.
delete_file_result(md, files, file_id) ==
    IF file_id \in DOMAIN md
    THEN LET filename == md[file_id].filename
         IN  [ok |-> TRUE,
              unlinked |-> filename \in DOMAIN files,
              metadata |-> [f \in DOMAIN md \ {file_id} |-> md[f]],
              uploads  |-> [n \in DOMAIN files \ {filename} |-> files[n]]]
    ELSE [ok |-> FALSE, unlinked |-> FALSE, metadata |-> md, uploads |-> files]

\* get_file_path: uploads_dir / filename, named by the file name.
get_file_path(md, file_id) ==
    IF file_id \in DOMAIN md THEN md[file_id].filename ELSE NoPath

----------------------------------------------------------------------------
\* The files of the thread store as text (src/app/chat_memory.py).  The text of
\* a JSON list is one token per element and the closing bracket.

Sessions == { 1, 2 }

\* The thread both sessions append to.
AppendThread == 1

\* The closing bracket: a token that is no element.
EndMark == [closing |-> "]"]

\* json.dump(value, f)
json_dump(value) == value \o <<EndMark>>

\* json.load(f): the list, or JSONDecodeError for a text that is empty, has no
\* closing bracket, or goes on after it.
json_load(text) ==
    IF /\ text # <<>>
       /\ text[Len(text)] = EndMark
       /\ \A i \in 1..(Len(text) - 1) : text[i] # EndMark
    THEN [ok |-> TRUE, value |-> SubSeq(text, 1, Len(text) - 1)]
    ELSE [ok |-> FALSE, value |-> <<>>]

\* load_thread_messages and load_threads_index on an existing file: [] on a
\* JSONDecodeError.
load_file(text) == json_load(text).value

\* open(file, 'w'): the file is truncated.
open_w == <<>>

\* The write of the buffered text when the file is closed: at offset 0 of this
\* open file, over whatever the file holds by then.
write_at_start(text, written) ==
    written \o SubSeq(text, Len(written) + 1, Len(text))

\* The message a session appends.
AppendMessage(s) ==
    IF s = 1 THEN [question |-> "q1", answer |-> "a1", sources |-> <<>>]
             ELSE [question |-> "q2", answer |-> "a2", sources |-> <<>>]

\* The thread before the two appends: created, with one message.
PriorStore ==
    LET pdf == CHOOSE p \in Pdfs : p.pdf_file_id = "p1"
        created == create_thread_result(<<>>, <<>>, AppendThread, pdf, <<"h", "i">>, 1, 2)
    IN  add_message_result(created.index, created.logs, AppendThread,
                           [question |-> "q0", answer |-> "a0", sources |-> <<>>], 3, 4)

PriorLog == PriorStore.logs[AppendThread]

\* A session's local variables: messages (add_message_to_thread), threads
\* (update_thread_metadata), and where it was when it was interrupted.
NoLocals == [messages |-> <<>>, threads |-> <<>>, at |-> "none"]

----------------------------------------------------------------------------
\* The state machine: one action per operation of the store.

\* No call of search_threads made.
SearchIdle ==
    /\ query = <<>>
    /\ matching = <<>>

StoreInit ==
    /\ index = <<>>
    /\ logs = <<>>
    /\ clock = 0
    /\ nextId = 1
    /\ appended = <<>>
    /\ lastOp = NoOp

\* No call of create_pdf_chunks made.
ChunkIdle ==
    /\ pages_content = <<>>
    /\ chunk_size = 0
    /\ chunked = FALSE
    /\ chunks = <<>>

\* No call of find_relevant_content made, no document loaded.
RankIdle ==
    /\ question = <<>>
    /\ selected_pdf_content = NoContent
    /\ content_texts = <<>>
    /\ sources = <<>>
    /\ raised = FALSE
    /\ ranked = FALSE

\* The session state as the constructors leave it in a new session
\* (ui_chat.py:23-31, chat_sidebar.py:15-25).
ChatIdle ==
    /\ current_thread_id = NoThread
    /\ new_chat_clicked = FALSE
    /\ selected_pdf_id = NoPdf
    /\ chat_history = [f \in PdfIds |-> <<>>]
    /\ generation = "none"

\* The file store before any upload.
FileIdle ==
    /\ metadata = <<>>
    /\ uploads = <<>>
    /\ nextFileId = 1
    /\ fileOp = NoFileOp

\* No session appending.
AppendIdle ==
    /\ index_file = <<>>
    /\ log_file = <<>>
    /\ pc = [s \in Sessions |-> "idle"]
    /\ session = [s \in Sessions |-> NoLocals]
    /\ append_clock = 0

Init ==
    /\ StoreInit
    /\ SearchIdle
    /\ ChunkIdle
    /\ RankIdle
    /\ ChatIdle
    /\ FileIdle
    /\ AppendIdle

\* The calls made on the threads that are in the index, for the round trip.
Restrict(f, S) == [x \in DOMAIN f \cap S |-> f[x]]

create_new_thread(pdf, first_question) ==
    /\ nextId <= MaxThreads
    /\ clock + 2 <= MaxClock
    /\ LET r == create_thread_result(index, logs, nextId, pdf, first_question,
                                     clock + 1, clock + 2)
       IN  /\ index' = r.index
           /\ logs' = r.logs
    /\ clock' = clock + 2
    /\ appended' = (nextId :> <<>>) @@ appended
    /\ lastOp' = [NoOp EXCEPT !.op = "create_new_thread", !.id = nextId,
                              !.text = first_question]
    /\ nextId' = nextId + 1
    /\ UNCHANGED nonStoreVars

add_message_to_thread(thread_id, m) ==
    /\ thread_id < nextId
    /\ clock + 2 <= MaxClock
    /\ LET r == add_message_result(index, logs, thread_id, m, clock + 1, clock + 2)
       IN  /\ index' = r.index
           /\ logs' = r.logs
    /\ clock' = clock + 2
    /\ appended' = IF thread_id \in DOMAIN appended
                   THEN [appended EXCEPT ![thread_id] = Append(@, m)]
                   ELSE appended
    /\ lastOp' = [NoOp EXCEPT !.op = "add_message_to_thread", !.id = thread_id,
                              !.text = <<m.question>>]
    /\ UNCHANGED <<nextId, nonStoreVars>>

update_thread_title(thread_id, new_title) ==
    /\ thread_id < nextId
    /\ clock + 1 <= MaxClock
    /\ LET r == update_title_result(index, thread_id, new_title, clock + 1)
       IN  /\ index' = r.index
           /\ lastOp' = [NoOp EXCEPT !.op = "update_thread_title", !.id = thread_id,
                                     !.text = new_title, !.ok = r.found]
    /\ clock' = clock + 1
    /\ UNCHANGED <<logs, nextId, appended, nonStoreVars>>

delete_thread(thread_id) ==
    /\ thread_id < nextId
    /\ LET r == delete_thread_result(index, logs, thread_id)
       IN  /\ index' = r.index
           /\ logs' = r.logs
           /\ appended' = Restrict(appended, IndexIds(r.index))
           /\ lastOp' = [NoOp EXCEPT !.op = "delete_thread", !.id = thread_id,
                                     !.ok = r.ok]
    /\ UNCHANGED <<clock, nextId, nonStoreVars>>

SameCleanup(valid_pdf_ids) ==
    lastOp.op = "cleanup_orphaned_threads" /\ lastOp.valid = valid_pdf_ids

cleanup_orphaned_threads(valid_pdf_ids) ==
    /\ LET r == cleanup_result(index, logs, valid_pdf_ids)
       IN  /\ index' = r.index
           /\ logs' = r.logs
           /\ appended' = Restrict(appended, IndexIds(r.index))
           /\ lastOp' = [NoOp EXCEPT !.op = "cleanup_orphaned_threads",
                                     !.valid = valid_pdf_ids, !.count = r.count,
                                     !.again = SameCleanup(valid_pdf_ids),
                                     !.prev = IF SameCleanup(valid_pdf_ids)
                                              THEN lastOp.count ELSE 0]
    /\ UNCHANGED <<clock, nextId, nonStoreVars>>

StoreNext ==
    \/ \E pdf \in Pdfs, q \in Questions : create_new_thread(pdf, q)
    \/ \E id \in ThreadIds, m \in MessageInputs : add_message_to_thread(id, m)
    \/ \E id \in ThreadIds, s \in NewTitles : update_thread_title(id, s)
    \/ \E id \in ThreadIds : delete_thread(id)
    \/ \E valid \in SUBSET PdfIds : cleanup_orphaned_threads(valid)

Next == StoreNext

\* Searching a store: the store is one of the stores above, and is only read.
SearchInit ==
    /\ \E n \in 0..MaxSearchThreads :
          \E titles \in [1..n -> SearchTitles], msgs \in [1..n -> SearchMessages] :
              /\ index = [i \in 1..n |-> SearchThread(n, i, titles[i], msgs[i])]
              /\ logs = [id \in 1..n |-> SearchLog(n, n - id + 1, msgs[n - id + 1])]
              /\ clock = n * Stride
              /\ nextId = n + 1
    /\ appended = <<>>
    /\ lastOp = NoOp
    /\ SearchIdle
    /\ ChunkIdle
    /\ RankIdle
    /\ ChatIdle
    /\ FileIdle
    /\ AppendIdle

search_threads(q) ==
    /\ query' = q
    /\ matching' = search_threads_result(index, logs, q)
    /\ UNCHANGED <<storeVars, chunkVars, rankVars, chatVars, fileVars, appendVars>>

SearchNext == \E q \in SearchQueries : search_threads(q)

SpecSearch == SearchInit /\ [][SearchNext]_vars

\* Chunking a document: one or two pages and a chunk size, then the call.
ChunkInit ==
    /\ \E first \in PageContents :
          \/ pages_content = PagesOf(<<first>>)
          \/ \E second \in SecondPages : pages_content = PagesOf(<<first, second>>)
    /\ chunk_size \in ChunkSizes
    /\ chunked = FALSE
    /\ chunks = <<>>
    /\ StoreInit
    /\ SearchIdle
    /\ RankIdle
    /\ ChatIdle
    /\ FileIdle
    /\ AppendIdle

create_pdf_chunks ==
    /\ ~chunked
    /\ chunked' = TRUE
    /\ chunks' = create_pdf_chunks_result(pages_content, chunk_size)
    /\ UNCHANGED <<pages_content, chunk_size, storeVars, searchVars, rankVars, chatVars,
                   fileVars, appendVars>>

ChunkNext == create_pdf_chunks

SpecChunks == ChunkInit /\ [][ChunkNext]_vars

\* Ranking: a question and a document, loaded or not, then the call.
RankInit ==
    /\ question \in RankQuestions
    /\ \/ selected_pdf_content = NoContent
       \/ \E n \in 0..MaxChunks : \E contents \in [1..n -> RankContents] :
             selected_pdf_content = LoadedContent(contents)
    /\ content_texts = <<>>
    /\ sources = <<>>
    /\ raised = FALSE
    /\ ranked = FALSE
    /\ StoreInit
    /\ SearchIdle
    /\ ChunkIdle
    /\ ChatIdle
    /\ FileIdle
    /\ AppendIdle

find_relevant_content ==
    /\ ~ranked
    /\ ranked' = TRUE
    /\ LET r == find_relevant_content_result(selected_pdf_content, question)
       IN  /\ content_texts' = r.content_texts
           /\ sources' = r.sources
           /\ raised' = r.raised
    /\ UNCHANGED <<question, selected_pdf_content, storeVars, searchVars, chunkVars,
                   chatVars, fileVars, appendVars>>

RankNext == find_relevant_content

SpecRank == RankInit /\ [][RankNext]_vars

\* The chat page: the events of a session.  Every event runs the script again;
\* the first run selects a document, so every later event finds one selected.

\* The select box yields a document other than the selected one.
handle_pdf_change(file_id) ==
    /\ file_id # selected_pdf_id
    /\ selected_pdf_id' = file_id
    /\ new_chat_clicked' = FALSE
    /\ selected_pdf_content' = load_pdf_content(file_id)
    /\ IF is_new_conversation(index, current_thread_id, file_id)
       THEN /\ current_thread_id' = NoThread
            /\ chat_history' = [chat_history EXCEPT ![file_id] = <<>>]
       ELSE UNCHANGED <<current_thread_id, chat_history>>
    /\ lastOp' = [NoOp EXCEPT !.op = "handle_pdf_change"]
    /\ generation' = "none"
    /\ UNCHANGED <<index, logs, clock, nextId, nonChatVars>>

\* The New Chat button of the chat page (run, lines 47-53).  clear_current_thread
\* deletes the key; ChatSidebar.__init__ sets it to None in the run that follows.
new_chat_button ==
    /\ selected_pdf_id # NoPdf
    /\ new_chat_clicked' = TRUE
    /\ chat_history' = [chat_history EXCEPT ![selected_pdf_id] = <<>>]
    /\ current_thread_id' = NoThread
    /\ lastOp' = [NoOp EXCEPT !.op = "new_chat_button"]
    /\ generation' = "none"
    /\ UNCHANGED <<index, logs, clock, nextId, selected_pdf_id, selected_pdf_content,
                   nonChatVars>>

\* The New Chat button of the sidebar.
start_new_chat ==
    /\ selected_pdf_id # NoPdf
    /\ current_thread_id' = NoThread
    /\ chat_history' = [chat_history EXCEPT ![selected_pdf_id] = <<>>]
    /\ lastOp' = [NoOp EXCEPT !.op = "start_new_chat"]
    /\ generation' = "none"
    /\ UNCHANGED <<index, logs, clock, nextId, new_chat_clicked, selected_pdf_id,
                   selected_pdf_content, nonChatVars>>

\* A thread of the sidebar list is opened.
load_thread(thread_id) ==
    /\ selected_pdf_id # NoPdf
    /\ thread_id \in IndexIds(index)
    /\ LET thread == get_thread_by_id(index, thread_id)
           messages == load_thread_messages(logs, thread_id)
       IN  /\ current_thread_id' = thread_id
           /\ selected_pdf_id' = thread.pdf_file_id
           /\ chat_history' = [chat_history EXCEPT ![thread.pdf_file_id] =
                                  [k \in 1..Len(messages) |-> Shown(messages[k])]]
    /\ lastOp' = [NoOp EXCEPT !.op = "load_thread", !.id = thread_id]
    /\ generation' = "none"
    /\ UNCHANGED <<index, logs, clock, nextId, new_chat_clicked, selected_pdf_content,
                   nonChatVars>>

\* A thread of the sidebar list is deleted (after the confirmation).
delete_thread_with_cleanup(thread_id) ==
    /\ selected_pdf_id # NoPdf
    /\ thread_id \in IndexIds(index)
    /\ LET r == delete_thread_result(index, logs, thread_id)
           clear == r.ok /\ current_thread_id = thread_id
           found == thread_id \in IndexIds(r.index)
       IN  /\ index' = r.index
           /\ logs' = r.logs
           /\ current_thread_id' = IF clear THEN NoThread ELSE current_thread_id
           /\ chat_history' =
                  IF clear /\ found
                  THEN [chat_history EXCEPT
                          ![get_thread_by_id(r.index, thread_id).pdf_file_id] = <<>>]
                  ELSE chat_history
           /\ lastOp' = [NoOp EXCEPT !.op = "delete_thread_with_cleanup",
                                     !.id = thread_id, !.ok = r.ok]
    /\ generation' = "none"
    /\ UNCHANGED <<clock, nextId, new_chat_clicked, selected_pdf_id,
                   selected_pdf_content, nonChatVars>>

\* The Send button: shown when a document is selected and new_chat_clicked is
\* not set (run, line 54); it calls process_question on a non-blank question.
\* Each step of the handler is bound to its value before the next one uses it.
process_question(q, outcome) ==
    /\ selected_pdf_id # NoPdf
    /\ ~new_chat_clicked
    /\ strip(q) # <<>>
    /\ needs_new_thread(current_thread_id, new_chat_clicked) => nextId <= MaxThreads
    /\ clock + (IF needs_new_thread(current_thread_id, new_chat_clicked) THEN 4 ELSE 2)
          <= MaxChatClock
    /\ IF ~selected_pdf_content.loaded
       THEN /\ lastOp' = [NoOp EXCEPT !.op = "process_question", !.text = q,
                                      !.ok = FALSE]
            /\ generation' = "none"
            /\ UNCHANGED <<index, logs, clock, nextId, current_thread_id,
                           new_chat_clicked, selected_pdf_id, chat_history>>
       ELSE \E r \in { find_relevant_content_result(selected_pdf_content, q) } :
            \E answer \in { IF calls_generator(r)
                             THEN generate_answer_with_gemini(outcome)
                             ELSE [raised |-> FALSE, text |-> NoRelevantAnswer] } :
            /\ generation' = IF calls_generator(r) THEN outcome ELSE "none"
            /\ IF answer.raised
               THEN \* except Exception (line 299): the error is shown, nothing else
                    /\ lastOp' = [NoOp EXCEPT !.op = "process_question", !.text = q,
                                              !.ok = FALSE]
                    /\ UNCHANGED <<index, logs, clock, nextId, current_thread_id,
                                   new_chat_clicked, selected_pdf_id, chat_history>>
               ELSE \E chat_entry \in
                         { chat_entry_of(r, selected_pdf_id, q, answer.text) } :
                    \E create \in
                         { needs_new_thread(current_thread_id, new_chat_clicked) } :
                    \E created \in
                         { IF create
                           THEN create_thread_result(index, logs, nextId,
                                    [pdf_file_id  |-> selected_pdf_id,
                                     pdf_filename |-> filename_of(selected_pdf_id)],
                                    q, clock + 1, clock + 2)
                           ELSE [index |-> index, logs |-> logs] } :
                    \E thread_id \in
                         { IF create
                           THEN create_thread_for_first_question(current_thread_id,
                                                                 nextId)
                           ELSE current_thread_id } :
                    \E t \in { IF create THEN clock + 2 ELSE clock } :
                    \E added \in
                         { add_message_result(created.index, created.logs, thread_id,
                                              chat_entry, t + 1, t + 2) } :
                        /\ index' = added.index
                        /\ logs' = added.logs
                        /\ clock' = t + 2
                        /\ nextId' = IF create THEN nextId + 1 ELSE nextId
                        /\ current_thread_id' = thread_id
                        /\ new_chat_clicked' = IF create THEN FALSE ELSE new_chat_clicked
                        /\ chat_history' =
                               [chat_history EXCEPT ![selected_pdf_id] =
                                    Append(IF create THEN <<>> ELSE @, chat_entry)]
                        /\ lastOp' = [NoOp EXCEPT !.op = "process_question",
                                                  !.text = q, !.id = thread_id]
                        /\ UNCHANGED selected_pdf_id
    /\ UNCHANGED <<selected_pdf_content, nonChatVars>>

\* The page is opened in a new session: the session state starts afresh, the
\* persisted threads stay.
new_session ==
    /\ selected_pdf_id # NoPdf
    /\ current_thread_id' = NoThread
    /\ new_chat_clicked' = FALSE
    /\ selected_pdf_id' = NoPdf
    /\ chat_history' = [f \in PdfIds |-> <<>>]
    /\ selected_pdf_content' = NoContent
    /\ lastOp' = [NoOp EXCEPT !.op = "new_session"]
    /\ generation' = "none"
    /\ UNCHANGED <<index, logs, clock, nextId, nonChatVars>>

ChatNext ==
    \/ \E f \in PdfIds : handle_pdf_change(f)
    \/ new_chat_button
    \/ start_new_chat
    \/ \E id \in ThreadIds : load_thread(id)
    \/ \E id \in ThreadIds : delete_thread_with_cleanup(id)
    \/ \E q \in ChatQuestions, g \in GeminiOutcomes : process_question(q, g)
    \/ new_session

SpecChat == Init /\ [][ChatNext]_vars

\* The file store: its operations, and the write of the uploaded bytes that the
\* upload page does after add_file_metadata (ui_upload.py:56-58).
add_file_metadata(filename) ==
    /\ nextFileId <= MaxFiles
    /\ metadata' = add_file_metadata_result(metadata, filename, nextFileId)
    /\ nextFileId' = nextFileId + 1
    /\ fileOp' = [NoFileOp EXCEPT !.op = "add_file_metadata", !.id = nextFileId]
    /\ UNCHANGED <<uploads, nonFileVars>>

write_uploaded_file(file_id) ==
    /\ file_id \in DOMAIN metadata
    /\ uploads' = (metadata[file_id].filename :> file_id) @@ uploads
    /\ fileOp' = [NoFileOp EXCEPT !.op = "write_uploaded_file", !.id = file_id]
    /\ UNCHANGED <<metadata, nextFileId, nonFileVars>>

update_file_status(file_id, status) ==
    /\ file_id < nextFileId
    /\ metadata' = update_file_status_result(metadata, file_id, status)
    /\ fileOp' = [NoFileOp EXCEPT !.op = "update_file_status", !.id = file_id]
    /\ UNCHANGED <<uploads, nextFileId, nonFileVars>>

delete_file(file_id) ==
    /\ file_id < nextFileId
    /\ LET r == delete_file_result(metadata, uploads, file_id)
       IN  /\ metadata' = r.metadata
           /\ uploads' = r.uploads
           /\ fileOp' = [NoFileOp EXCEPT !.op = "delete_file", !.id = file_id,
                                         !.ok = r.ok, !.unlinked = r.unlinked]
    /\ UNCHANGED <<nextFileId, nonFileVars>>

FileNext ==
    \/ \E n \in FileNames : add_file_metadata(n)
    \/ \E f \in FileIds : write_uploaded_file(f)
    \/ \E f \in FileIds, st \in Statuses : update_file_status(f, st)
    \/ \E f \in FileIds : delete_file(f)

SpecFiles == Init /\ [][FileNext]_vars

\* add_message_to_thread run by two sessions on one thread: one action per read
\* or write of a file.
AppendInit ==
    /\ index_file = json_dump(PriorStore.index)
    /\ log_file = json_dump(PriorLog)
    /\ pc = [s \in Sessions |-> "idle"]
    /\ session = [s \in Sessions |-> NoLocals]
    /\ append_clock = 4

InitAppend ==
    /\ StoreInit
    /\ SearchIdle
    /\ ChunkIdle
    /\ RankIdle
    /\ ChatIdle
    /\ FileIdle
    /\ AppendInit

\* lines 168-176: load_thread_messages, then the message pair with its timestamp
\* is appended to the list.
append_load_log(s) ==
    /\ pc[s] = "idle"
    /\ append_clock' = append_clock + 1
    /\ session' = [session EXCEPT ![s].messages =
                      Append(load_file(log_file),
                             [question  |-> AppendMessage(s).question,
                              answer    |-> AppendMessage(s).answer,
                              sources   |-> AppendMessage(s).sources,
                              timestamp |-> append_clock'])]
    /\ pc' = [pc EXCEPT ![s] = "loaded"]
    /\ UNCHANGED <<index_file, log_file, nonAppendVars>>

\* line 74: open(thread_file, 'w')
append_open_log(s) ==
    /\ pc[s] = "loaded"
    /\ log_file' = open_w
    /\ pc' = [pc EXCEPT ![s] = "log_open"]
    /\ UNCHANGED <<index_file, session, append_clock, nonAppendVars>>

\* lines 75-76: json.dump and the close of the file
append_write_log(s) ==
    /\ pc[s] = "log_open"
    /\ log_file' = write_at_start(log_file, json_dump(session[s].messages))
    /\ pc' = [pc EXCEPT ![s] = "log_written"]
    /\ UNCHANGED <<index_file, session, append_clock, nonAppendVars>>

\* lines 78-81 and 98-109: datetime.now(), load_threads_index, and the update of
\* the entry in the loaded list; nothing is saved when the thread is not found.
append_load_index(s) ==
    /\ pc[s] = "log_written"
    /\ append_clock' = append_clock + 1
    /\ LET r == update_thread_metadata(load_file(index_file), AppendThread,
                   [message_count |-> Len(session[s].messages),
                    updated_at |-> append_clock'])
       IN  /\ session' = [session EXCEPT ![s].threads = r.index]
           /\ pc' = [pc EXCEPT ![s] = IF r.found THEN "index_loaded" ELSE "done"]
    /\ UNCHANGED <<index_file, log_file, nonAppendVars>>

\* line 41: open(threads_index_file, 'w')
append_open_index(s) ==
    /\ pc[s] = "index_loaded"
    /\ index_file' = open_w
    /\ pc' = [pc EXCEPT ![s] = "index_open"]
    /\ UNCHANGED <<log_file, session, append_clock, nonAppendVars>>

\* lines 41-42: json.dump and the close of the file
append_write_index(s) ==
    /\ pc[s] = "index_open"
    /\ index_file' = write_at_start(index_file, json_dump(session[s].threads))
    /\ pc' = [pc EXCEPT ![s] = "done"]
    /\ UNCHANGED <<log_file, session, append_clock, nonAppendVars>>

\* The process of a session dies in the middle of the call.
crash(s) ==
    /\ pc[s] \notin { "idle", "done", "crashed" }
    /\ session' = [session EXCEPT ![s].at = pc[s]]
    /\ pc' = [pc EXCEPT ![s] = "crashed"]
    /\ UNCHANGED <<index_file, log_file, append_clock, nonAppendVars>>

AppendNext ==
    \/ \E s \in Sessions : append_load_log(s)
    \/ \E s \in Sessions : append_open_log(s)
    \/ \E s \in Sessions : append_write_log(s)
    \/ \E s \in Sessions : append_load_index(s)
    \/ \E s \in Sessions : append_open_index(s)
    \/ \E s \in Sessions : append_write_index(s)
    \/ \E s \in Sessions : crash(s)

SpecAppend == InitAppend /\ [][AppendNext]_vars

Spec == Init /\ [][Next]_vars

----------------------------------------------------------------------------
\* Properties of the thread store.

Entry(id) == get_thread_by_id(index, id)

\* C1: every thread of the index has message_count equal to the number of
\* messages in its message log.
C1_CountEqualsLogLength ==
    \A i \in 1..Len(index) :
        index[i].message_count = Len(load_thread_messages(logs, index[i].thread_id))

C1_Witness ==
    /\ Len(index) >= 2
    /\ \E i \in 1..Len(index) :
          /\ index[i].message_count >= 1
          /\ Len(load_thread_messages(logs, index[i].thread_id)) >= 1

\* C2: a thread created and then appended to N times (whatever was done to other
\* threads in between) has message_count N and a log of the N messages, in the
\* order of the calls.
C2_RoundTrip ==
    \A id \in IndexIds(index) :
        /\ id \in DOMAIN appended
        /\ id \in DOMAIN logs
        /\ Entry(id).message_count = Len(appended[id])
        /\ Len(logs[id]) = Len(appended[id])
        /\ \A k \in 1..Len(appended[id]) :
              /\ logs[id][k].question = appended[id][k].question
              /\ logs[id][k].answer = appended[id][k].answer
              /\ logs[id][k].sources = appended[id][k].sources

C2_Witness ==
    \E id \in IndexIds(index) :
        /\ Entry(id).message_count = 2
        /\ Len(load_thread_messages(logs, id)) = 2
        /\ Len(appended[id]) = 2
        /\ appended[id][1].question = "q1"
        /\ appended[id][2].question = "q2"

\* C3: the index is sorted by updated_at, latest first, and the thread just
\* created, appended to or renamed is its first entry.
C3_IndexSortedLatestFirst ==
    /\ \A i, j \in 1..Len(index) :
          i < j => parse_datetime(index[i].updated_at) >= parse_datetime(index[j].updated_at)
    /\ (/\ lastOp.op \in {"create_new_thread", "add_message_to_thread",
                          "update_thread_title"}
        /\ lastOp.id \in IndexIds(index))
       => index[1].thread_id = lastOp.id

C3_Witness ==
    /\ lastOp.op \in {"add_message_to_thread", "update_thread_title"}
    /\ Len(index) >= 2
    /\ index[1].thread_id = lastOp.id
    /\ index[1].created_at < index[2].created_at

\* C4: delete_thread on an id that is not in the index returns False and leaves
\* the index as it is; on an id of the index it returns True and removes that
\* entry and that log, and nothing else.
C4_DeleteThread ==
    [][lastOp'.op = "delete_thread" =>
        IF lastOp'.id \notin IndexIds(index)
        THEN /\ ~lastOp'.ok
             /\ index' = index
        ELSE /\ lastOp'.ok
             /\ Len(index') = Len(index) - 1
             /\ lastOp'.id \notin IndexIds(index')
             /\ \A i \in 1..Len(index) :
                   index[i].thread_id # lastOp'.id =>
                       \E j \in 1..Len(index') : index'[j] = index[i]
             /\ DOMAIN logs' = DOMAIN logs \ {lastOp'.id}
             /\ \A x \in DOMAIN logs' : logs'[x] = logs[x]]_vars

C4_Witness ==
    /\ lastOp.op = "delete_thread"
    /\ lastOp.ok
    /\ lastOp.id \notin DOMAIN logs
    /\ \E i \in 1..Len(index) : index[i].message_count >= 1

\* C5: every message log belongs to a thread of the index (add_message_to_thread
\* on an id that is not in the index writes nothing).
C5_EveryLogHasIndexEntry ==
    \A id \in DOMAIN logs : id \in IndexIds(index)

\* C6: while a thread exists its log only grows at the end: add_message_to_thread
\* on it adds one message after the stored ones, every other call leaves the log
\* as it is.
C6_LogAppendOnly ==
    [][\A id \in DOMAIN logs :
          (id \in IndexIds(index) /\ id \in IndexIds(index')) =>
              /\ id \in DOMAIN logs'
              /\ IF lastOp'.op = "add_message_to_thread" /\ lastOp'.id = id
                 THEN /\ Len(logs'[id]) = Len(logs[id]) + 1
                      /\ SubSeq(logs'[id], 1, Len(logs[id])) = logs[id]
                 ELSE logs'[id] = logs[id]]_vars

C6_Witness ==
    /\ lastOp.op = "add_message_to_thread"
    /\ lastOp.id \in IndexIds(index)
    /\ Len(load_thread_messages(logs, lastOp.id)) >= 2

\* C7: cleanup_orphaned_threads removes the entry and the log of every thread
\* whose pdf_file_id is not in valid_pdf_ids, keeps the other threads (entry and
\* log) as they are, and returns the number of threads removed.
C7_CleanupOrphans ==
    [][lastOp'.op = "cleanup_orphaned_threads" =>
        LET orphans == { id \in IndexIds(index) :
                           Entry(id).pdf_file_id \notin lastOp'.valid }
        IN  /\ lastOp'.count = Cardinality(orphans)
            /\ IndexIds(index') = IndexIds(index) \ orphans
            /\ Len(index') = Len(index) - Cardinality(orphans)
            /\ \A id \in orphans : id \notin DOMAIN logs'
            /\ \A id \in IndexIds(index) \ orphans :
                  /\ get_thread_by_id(index', id) = Entry(id)
                  /\ id \in DOMAIN logs'
                  /\ logs'[id] = logs[id]]_vars

C7_Witness ==
    /\ lastOp.op = "cleanup_orphaned_threads"
    /\ lastOp.count >= 1
    /\ \E i \in 1..Len(index) : index[i].message_count >= 1

\* C8: a second cleanup_orphaned_threads with the same valid_pdf_ids, right after
\* the first, returns 0 and changes neither the index nor a log.
C8_CleanupIdempotent ==
    [][(/\ lastOp.op = "cleanup_orphaned_threads"
        /\ lastOp'.op = "cleanup_orphaned_threads"
        /\ lastOp'.valid = lastOp.valid)
       => (/\ lastOp'.count = 0
           /\ index' = index
           /\ logs' = logs)]_vars

C8_Witness ==
    /\ lastOp.op = "cleanup_orphaned_threads"
    /\ lastOp.again
    /\ lastOp.prev >= 1
    /\ lastOp.count = 0
    /\ Len(index) >= 1

\* C9 as claimed: the title of a thread just created has at most 50 characters.
C9_TitleAtMostLimit ==
    lastOp.op = "create_new_thread" => Len(Entry(lastOp.id).title) <= TitleLimit

\* C9, amended: the title of a thread just created is first_question when that has
\* at most 50 characters, and otherwise its first 50 characters followed by "...":
\* at most 53 characters.
C9_TitleAtMostLimitPlusEllipsis ==
    lastOp.op = "create_new_thread" =>
        LET title == Entry(lastOp.id).title
            q == lastOp.text
        IN  /\ Len(title) <= TitleLimit + Len(Ellipsis)
            /\ Len(q) <= TitleLimit => title = q
            /\ Len(q) > TitleLimit =>
                  /\ Len(title) = TitleLimit + Len(Ellipsis)
                  /\ \A i \in 1..TitleLimit : title[i] = q[i]
                  /\ \A i \in 1..Len(Ellipsis) : title[TitleLimit + i] = Ellipsis[i]

C9_Witness ==
    /\ lastOp.op = "create_new_thread"
    /\ Len(lastOp.text) > TitleLimit
    /\ Len(Entry(lastOp.id).title) > TitleLimit

\* C10: update_thread_title returns True exactly when the id is in the index; when
\* it is not, the index stays as it is; when it is, that entry's title becomes
\* new_title without its leading and trailing whitespace and its updated_at
\* changes, and its other fields, the logs and the other entries stay as they are.
Trimmed(title, text) ==
    /\ title = <<>> \/ (title[1] \notin Whitespace /\ title[Len(title)] \notin Whitespace)
    /\ \E i \in 1..(Len(text) + 1) :
          /\ i + Len(title) - 1 <= Len(text)
          /\ title = SubSeq(text, i, i + Len(title) - 1)
          /\ \A k \in 1..Len(text) :
                (k < i \/ k > i + Len(title) - 1) => text[k] \in Whitespace

C10_RenameThread ==
    [][lastOp'.op = "update_thread_title" =>
        /\ lastOp'.ok = (lastOp'.id \in IndexIds(index))
        /\ logs' = logs
        /\ IF lastOp'.id \notin IndexIds(index)
           THEN index' = index
           ELSE LET old == Entry(lastOp'.id)
                    new == get_thread_by_id(index', lastOp'.id)
                IN  /\ IndexIds(index') = IndexIds(index)
                    /\ Len(index') = Len(index)
                    /\ Trimmed(new.title, lastOp'.text)
                    /\ new.updated_at # old.updated_at
                    /\ new = [old EXCEPT !.title = new.title,
                                         !.updated_at = new.updated_at]
                    /\ \A id \in IndexIds(index) \ {lastOp'.id} :
                          get_thread_by_id(index', id) = Entry(id)]_vars

C10_Witness ==
    /\ lastOp.op = "update_thread_title"
    /\ lastOp.ok
    /\ Len(index) >= 2
    /\ Entry(lastOp.id).title = <<"n", "e", "w">>
    /\ Entry(lastOp.id).message_count >= 1

\* C11: delete_thread on an id that has no index entry but has a log file returns
\* False and removes that log file.
C11_DeleteRemovesStrayLog ==
    [][(/\ lastOp'.op = "delete_thread"
        /\ lastOp'.id \notin IndexIds(index)
        /\ lastOp'.id \in DOMAIN logs)
       => (/\ ~lastOp'.ok
           /\ lastOp'.id \notin DOMAIN logs')]_vars

\* C12: search_threads returns, in the order of the index and each once, the
\* threads whose title contains the query, letter case apart, or one of whose
\* messages has a question or an answer that contains it; and no other thread.
SameLetter(c, d) ==
    \/ c = d
    \/ {c, d} \in { {"A", "a"}, {"B", "b"}, {"C", "c"}, {"D", "d"} }

ContainsIgnoringCase(sub, s) ==
    \E i \in 0..(Len(s) - Len(sub)) :
        \A k \in 1..Len(sub) : SameLetter(sub[k], s[i + k])

ThreadMatches(t, q) ==
    \/ ContainsIgnoringCase(q, t.title)
    \/ \E k \in 1..Len(load_thread_messages(logs, t.thread_id)) :
          \/ ContainsIgnoringCase(q, logs[t.thread_id][k].question)
          \/ ContainsIgnoringCase(q, logs[t.thread_id][k].answer)

C12_SearchThreads ==
    [][searchVars' # searchVars =>
          matching' = SelectSeq(index, LAMBDA t : ThreadMatches(t, query'))]_vars

C12_Witness ==
    /\ Len(index) = 2
    /\ Len(matching) = 1
    /\ query = <<"D">>
    /\ ~ContainsIgnoringCase(query, matching[1].title)
    /\ matching[1] = index[2]

----------------------------------------------------------------------------
\* Properties of create_pdf_chunks.

\* The chunks emitted for the page numbered n, in the order of the list.
ChunksOfPage(n) == SelectSeq(chunks, LAMBDA c : c.page_number = n)

RECURSIVE WordsOfChunks(_)
WordsOfChunks(cs) ==
    IF cs = <<>> THEN <<>> ELSE split(Head(cs).content) \o WordsOfChunks(Tail(cs))

\* C13: when no word of a page is longer than chunk_size, no chunk of that page
\* has more than chunk_size characters.
C13_ChunkWithinSize ==
    chunked =>
        \A n \in 1..Len(pages_content) :
            (\A w \in 1..Len(split(pages_content[n].content)) :
                 Len(split(pages_content[n].content)[w]) <= chunk_size)
            => \A k \in 1..Len(ChunksOfPage(n)) :
                   Len(ChunksOfPage(n)[k].content) <= chunk_size

\* C14: the words of the chunks of a page, taken in chunk order, are the words of
\* the page: none dropped, none twice, none out of place.
C14_WordsPreserved ==
    chunked =>
        \A n \in 1..Len(pages_content) :
            WordsOfChunks(ChunksOfPage(n)) = split(pages_content[n].content)

C14_Witness ==
    /\ chunked
    /\ Len(ChunksOfPage(1)) >= 2
    /\ Len(split(pages_content[1].content)) >= 3
    /\ \E k \in 1..Len(chunks) : Len(split(chunks[k].content)) >= 2

\* C15: a page with empty content has no chunk, and no chunk has empty content.
C15_NoChunkForEmptyPage ==
    chunked =>
        /\ \A n \in 1..Len(pages_content) :
              pages_content[n].content = <<>> => ChunksOfPage(n) = <<>>
        /\ \A k \in 1..Len(chunks) : chunks[k].content # <<>>

\* C16: chunk_id runs 0, 1, 2, ... over the whole list, the chunks are in page
\* order, and the words of a chunk are consecutive words of the page whose
\* number it carries.
IsRunOf(ws, all) ==
    \E i \in 0..(Len(all) - Len(ws)) : SubSeq(all, i + 1, i + Len(ws)) = ws

C16_ChunkIdsAndPages ==
    chunked =>
        /\ \A k \in 1..Len(chunks) : chunks[k].chunk_id = k - 1
        /\ \A k, l \in 1..Len(chunks) :
              k < l => chunks[k].page_number <= chunks[l].page_number
        /\ \A k \in 1..Len(chunks) :
              /\ chunks[k].page_number \in 1..Len(pages_content)
              /\ IsRunOf(split(chunks[k].content),
                         split(pages_content[chunks[k].page_number].content))

C16_Witness ==
    /\ chunked
    /\ Len(pages_content) = 2
    /\ Len(chunks) = 3
    /\ Len(ChunksOfPage(1)) = 2
    /\ chunks[3].chunk_id = 2
    /\ chunks[3].page_number = 2
    /\ chunks[3].content = pages_content[2].content

----------------------------------------------------------------------------
\* Properties of find_relevant_content.

\* The words of a text, case apart.
SharesWord(q, content) == Tokens(q) \cap Tokens(content) # {}

\* The positions of the chunks of the loaded document that share a word with
\* the question.
Overlapping ==
    { k \in 1..Len(selected_pdf_content.chunks) :
        SharesWord(question, selected_pdf_content.chunks[k].content) }

\* C17: every chunk returned shares a word with the question, case apart; the
\* result is empty when the question has no word or no chunk shares one, and
\* the call never raises.
C17_OnlyOverlappingChunks ==
    ranked =>
        /\ ~raised
        /\ \A i \in 1..Len(sources) :
              \E k \in Overlapping :
                  /\ selected_pdf_content.chunks[k].page_number = sources[i].page_number
                  /\ selected_pdf_content.chunks[k].content = sources[i].content
        /\ \A i \in 1..Len(content_texts) : SharesWord(question, content_texts[i])
        /\ (Tokens(question) = {} \/ Overlapping = {})
              => (content_texts = <<>> /\ sources = <<>>)

C17_Witness ==
    /\ ranked
    /\ Len(sources) >= 2
    /\ Len(sources) < Len(selected_pdf_content.chunks)
    /\ Len(sources) < TopChunks
    /\ Overlapping # 1..Len(selected_pdf_content.chunks)

\* The number of question words a chunk holds: the score times the number of
\* question words, which is the same for every chunk.
Shared(k) ==
    Cardinality(Tokens(question) \cap Tokens(selected_pdf_content.chunks[k].content))

\* Chunk k is ranked before chunk l: higher score, or same score and earlier.
Before(k, l) == Shared(k) > Shared(l) \/ (Shared(k) = Shared(l) /\ k < l)

\* C18: the result holds min(5, number of overlapping chunks) chunks; they are the
\* overlapping chunks ranked first by score descending and original order among
\* equal scores, in that order; contents and sources go position by position.
\* Every chunk of the documents drawn is on its own page, so page_number names it.
C18_TopFiveByScoreStable ==
    ranked =>
        /\ Len(sources) = (IF Cardinality(Overlapping) < 5 THEN Cardinality(Overlapping) ELSE 5)
        /\ Len(content_texts) = Len(sources)
        /\ \A i \in 1..Len(sources) :
              /\ sources[i].page_number \in Overlapping
              /\ sources[i].content =
                     selected_pdf_content.chunks[sources[i].page_number].content
              /\ content_texts[i] = sources[i].content
        /\ \A i, j \in 1..Len(sources) :
              i < j => Before(sources[i].page_number, sources[j].page_number)
        /\ \A k \in Overlapping :
              (\A i \in 1..Len(sources) : sources[i].page_number # k)
              => \A i \in 1..Len(sources) : Before(sources[i].page_number, k)

C18_Witness ==
    /\ ranked
    /\ Cardinality(Overlapping) > 5
    /\ Len(sources) = 5
    /\ sources[1].page_number > sources[2].page_number
    /\ \E i \in 1..4 :
          /\ Shared(sources[i].page_number) = Shared(sources[i + 1].page_number)
          /\ sources[i].content # sources[i + 1].content
    /\ \E k \in Overlapping : \A i \in 1..5 : sources[i].page_number # k

----------------------------------------------------------------------------
\* Properties of the chat page.

\* The step is a question processed past the check of the loaded content.
QuestionProcessed == lastOp'.op = "process_question" /\ lastOp'.ok

\* Every log but that of thread id is as it was.
OtherLogsKept(id) ==
    /\ DOMAIN logs' \ {id} = DOMAIN logs \ {id}
    /\ \A other \in DOMAIN logs \ {id} : logs'[other] = logs[other]

\* C19: a question processed with no current thread (or with new_chat_clicked
\* set) creates exactly one thread, for the selected document, titled after the
\* question; the thread holds that one question and answer, its message_count
\* is 1, and it is the current thread afterwards.
C19_FirstQuestionCreatesThread ==
    [][(QuestionProcessed /\ (current_thread_id = NoThread \/ new_chat_clicked))
       => LET id == current_thread_id'
          IN  /\ id # NoThread
              /\ id \notin IndexIds(index)
              /\ IndexIds(index') = IndexIds(index) \cup {id}
              /\ Len(index') = Len(index) + 1
              /\ \A i \in 1..Len(index) : \E j \in 1..Len(index') : index'[j] = index[i]
              /\ get_thread_by_id(index', id).pdf_file_id = selected_pdf_id
              /\ get_thread_by_id(index', id).title = thread_title(lastOp'.text)
              /\ get_thread_by_id(index', id).message_count = 1
              /\ id \in DOMAIN logs'
              /\ Len(logs'[id]) = 1
              /\ logs'[id][1].question = lastOp'.text
              /\ chat_history'[selected_pdf_id] = <<Shown(logs'[id][1])>>
              /\ OtherLogsKept(id)]_vars

C19_Witness ==
    /\ lastOp.op = "process_question"
    /\ lastOp.ok
    /\ Len(index) = 2
    /\ current_thread_id = lastOp.id
    /\ current_thread_id = nextId - 1
    /\ Entry(current_thread_id).message_count = 1
    /\ Entry(current_thread_id).pdf_file_id = selected_pdf_id
    /\ Len(logs[current_thread_id]) = 1

\* C20: a question processed with a current thread appends exactly one message,
\* that question and its answer, to the log of that thread; no thread is created
\* and the current thread stays.
C20_LaterQuestionAppends ==
    [][(QuestionProcessed /\ current_thread_id # NoThread /\ ~new_chat_clicked)
       => LET id == current_thread_id
          IN  /\ current_thread_id' = id
              /\ IndexIds(index') = IndexIds(index)
              /\ Len(index') = Len(index)
              /\ id \in IndexIds(index)
              /\ get_thread_by_id(index', id).message_count
                    = get_thread_by_id(index, id).message_count + 1
              /\ Len(logs'[id]) = Len(load_thread_messages(logs, id)) + 1
              /\ SubSeq(logs'[id], 1, Len(logs'[id]) - 1) = load_thread_messages(logs, id)
              /\ logs'[id][Len(logs'[id])].question = lastOp'.text
              /\ OtherLogsKept(id)]_vars

C20_Witness ==
    /\ lastOp.op = "process_question"
    /\ lastOp.ok
    /\ Len(index) = 2
    /\ current_thread_id = lastOp.id
    /\ Entry(current_thread_id).message_count = 2
    /\ Len(logs[current_thread_id]) = 2
    /\ logs[current_thread_id][1].question # logs[current_thread_id][2].question

\* No chunk of the loaded content shares a word with q, case apart: what the
\* ranker returns for q is empty (C17).
NoOverlap(q) ==
    \A k \in 1..Len(selected_pdf_content.chunks) :
        ~SharesWord(q, selected_pdf_content.chunks[k].content)

\* The step persisted the question q as one message, as any processed question
\* is: in a thread created by the step when there was no current thread, at the
\* end of the current thread's log otherwise; the index entry counts it and the
\* display history ends with it.
PersistedOneMessage(q) ==
    LET id == current_thread_id'
    IN  /\ id # NoThread
        /\ id \in IndexIds(index')
        /\ id \in DOMAIN logs'
        /\ IF current_thread_id = NoThread
           THEN /\ id \notin IndexIds(index)
                /\ IndexIds(index') = IndexIds(index) \cup {id}
                /\ Len(logs'[id]) = 1
           ELSE /\ id = current_thread_id
                /\ IndexIds(index') = IndexIds(index)
                /\ Len(logs'[id]) = Len(load_thread_messages(logs, id)) + 1
                /\ SubSeq(logs'[id], 1, Len(logs'[id]) - 1)
                      = load_thread_messages(logs, id)
        /\ logs'[id][Len(logs'[id])].question = q
        /\ get_thread_by_id(index', id).message_count = Len(logs'[id])
        /\ chat_history'[selected_pdf_id] # <<>>
        /\ chat_history'[selected_pdf_id][Len(chat_history'[selected_pdf_id])]
              = Shown(logs'[id][Len(logs'[id])])
        /\ OtherLogsKept(id)

\* The last message of the current thread's log.
LastMessage == logs[current_thread_id][Len(logs[current_thread_id])]

\* C21: when no chunk of the loaded content overlaps the question, the answer
\* generator is not called, the answer is the fixed message with no sources,
\* and the message is persisted as for any other question.
C21_NoRelevantContentStillPersisted ==
    [][(/\ lastOp'.op = "process_question"
        /\ selected_pdf_content.loaded
        /\ NoOverlap(lastOp'.text))
       => /\ generation' = "none"
          /\ lastOp'.ok
          /\ PersistedOneMessage(lastOp'.text)
          /\ LastMessage'.answer = NoRelevantAnswer
          /\ LastMessage'.sources = <<>>]_vars

C21_Witness ==
    /\ lastOp.op = "process_question"
    /\ lastOp.ok
    /\ generation = "none"
    /\ current_thread_id \in DOMAIN logs
    /\ Len(logs[current_thread_id]) = 2
    /\ logs[current_thread_id][1].answer = GeneratedText
    /\ logs[current_thread_id][1].sources # <<>>
    /\ LastMessage.answer = NoRelevantAnswer
    /\ LastMessage.sources = <<>>
    /\ Entry(current_thread_id).message_count = 2

\* C22: when the answer generator fails, the question is still processed: the
\* error text is the answer, and the message is persisted with the same thread
\* creation or append as after a successful generation.
C22_GeneratorFailureStillPersisted ==
    [][(lastOp'.op = "process_question" /\ generation' = "fails")
       => /\ lastOp'.ok
          /\ PersistedOneMessage(lastOp'.text)
          /\ LastMessage'.answer = ErrorText]_vars

C22_Witness ==
    /\ lastOp.op = "process_question"
    /\ lastOp.ok
    /\ generation = "fails"
    /\ current_thread_id \in DOMAIN logs
    /\ Len(logs[current_thread_id]) = 2
    /\ logs[current_thread_id][1].answer = ErrorText
    /\ LastMessage.answer = ErrorText
    /\ Entry(current_thread_id).message_count = 2
    /\ Len(chat_history[selected_pdf_id]) = 2

\* C23: selecting another document, the New Chat button of the chat page and the
\* New Chat button of the sidebar each leave no current thread and an empty
\* display history for the selected document, and change no persisted thread
\* or log.
C23_SwitchOrNewChatResets ==
    [][lastOp'.op \in {"handle_pdf_change", "new_chat_button", "start_new_chat"}
       => /\ current_thread_id' = NoThread
          /\ selected_pdf_id' # NoPdf
          /\ chat_history'[selected_pdf_id'] = <<>>
          /\ index' = index
          /\ logs' = logs]_vars

C23_Witness ==
    /\ lastOp.op = "handle_pdf_change"
    /\ current_thread_id = NoThread
    /\ chat_history[selected_pdf_id] = <<>>
    /\ \E f \in PdfIds \ {selected_pdf_id} : Len(chat_history[f]) = 2
    /\ \E i \in 1..Len(index) :
          /\ index[i].pdf_file_id # selected_pdf_id
          /\ index[i].message_count = 2

\* C27: whenever a question is processed, the content that is ranked was
\* extracted from the selected document.
C27_RankedContentIsOfSelectedPdf ==
    [][(lastOp'.op = "process_question" /\ lastOp'.ok)
       => /\ selected_pdf_content.loaded
          /\ selected_pdf_content.file_path = selected_pdf_id]_vars

\* The chat page shows the question input and the Send button (run, line 54).
SendShown == selected_pdf_id # NoPdf /\ ~new_chat_clicked

\* C28: after the New Chat button of the chat page, the question input is still
\* shown for the selected document.
C28_InputShownAfterNewChat ==
    lastOp.op = "new_chat_button" => SendShown

\* C29: deleting the current thread through the sidebar clears the current
\* thread id and empties the display history of that thread's document.
C29_DeleteCurrentThreadClearsDisplay ==
    [][(/\ lastOp'.op = "delete_thread_with_cleanup"
        /\ lastOp'.ok
        /\ lastOp'.id = current_thread_id)
       => /\ current_thread_id' = NoThread
          /\ chat_history'[get_thread_by_id(index, current_thread_id).pdf_file_id]
                = <<>>]_vars

----------------------------------------------------------------------------
\* Properties of the file store.

\* C24: delete_file on a registered id returns True and removes the metadata
\* entry and the backing file of that document, leaving the other entries as
\* they were; on an unknown id it returns False and changes neither the
\* metadata nor any file.
C24_DeleteFile ==
    [][fileOp'.op = "delete_file"
       => IF fileOp'.id \in DOMAIN metadata
          THEN /\ fileOp'.ok
               /\ DOMAIN metadata' = DOMAIN metadata \ {fileOp'.id}
               /\ \A f \in DOMAIN metadata' : metadata'[f] = metadata[f]
               /\ metadata[fileOp'.id].filename \notin DOMAIN uploads'
          ELSE /\ ~fileOp'.ok
               /\ metadata' = metadata
               /\ uploads' = uploads]_vars

C24_Witness ==
    /\ fileOp.op = "delete_file"
    /\ fileOp.ok
    /\ fileOp.unlinked
    /\ fileOp.id \notin DOMAIN metadata
    /\ \E f \in DOMAIN metadata :
          /\ metadata[f].status = "success"
          /\ metadata[f].filename \in DOMAIN uploads

\* C30: delete_file removes only the backing file of the document deleted: every
\* other registered document that had its file still has it, and get_file_path
\* names an existing file for it.
C30_DeleteKeepsOtherFiles ==
    [][fileOp'.op = "delete_file"
       => \A f \in DOMAIN metadata' :
              get_file_path(metadata, f) \in DOMAIN uploads
              => get_file_path(metadata', f) \in DOMAIN uploads']_vars

----------------------------------------------------------------------------
\* Properties of an append that is interrupted, and of two concurrent appends.

\* The index entry of the thread counts the messages of its log, as the files
\* stand.
CountIsLogLength ==
    LET threads == load_file(index_file)
    IN  /\ AppendThread \in IndexIds(threads)
        /\ get_thread_by_id(threads, AppendThread).message_count
             = Len(load_file(log_file))

\* C25: when an append, running alone, is interrupted between the write of the
\* log and the write of the index, the files that remain still have
\* message_count equal to the length of the thread's log.
C25_InterruptedAppendKeepsCount ==
    \A s \in Sessions :
        (/\ pc[s] = "crashed"
         /\ session[s].at \in { "log_written", "index_loaded" }
         /\ \A o \in Sessions \ {s} : pc[o] = "idle")
        => CountIsLogLength

\* C26: when two sessions have appended to the same thread concurrently, the log
\* file is a well-formed list, it is the list one of the two sessions wrote, and
\* it holds the prior messages followed by one or both of the new messages.
C26_ConcurrentAppendsLastWriterWins ==
    (\A s \in Sessions : pc[s] = "done")
    => /\ json_load(log_file).ok
       /\ \E s \in Sessions : load_file(log_file) = session[s].messages
       /\ Len(load_file(log_file)) > Len(PriorLog)
       /\ SubSeq(load_file(log_file), 1, Len(PriorLog)) = PriorLog

====
